---- MODULE Spec2Model ----
(***************************************************************************)
(* Model of check_pathe.py: the Pathe Brumath showtime monitor.            *)
(*                                                                         *)
(* One invocation of main() reads state.json, probes the cinema page,      *)
(* decides whether to mail, and writes state.json back.  The scheduler     *)
(* starts invocations one after another.                                   *)
(*                                                                         *)
(* Four specifications:                                                    *)
(*   Spec        successive invocations of main();                         *)
(*   SpecNotify  direct calls of send_email_brevo(subject, body);          *)
(*   SpecProbe   direct calls of check_availability();                     *)
(*   SpecOverlap two invocations of main() on one state.json.              *)
(***************************************************************************)
EXTENDS Integers, Sequences, FiniteSets, TLC

(* ------------------------------ bounds -------------------------------- *)

\* invocations of main() the scheduler starts
MaxRuns == 2
\* responses the page produces during one probe
MaxResp == 2
\* HH:MM matches in one response body
MaxTimes == 2

\* collected_xhr_urls[:8], collected_hits[:8]
SampleMax == 8

(* --------------------------- JSON / dict values ----------------------- *)

\* a key a dict does not hold
Absent == "<absent>"
\* a JSON string that is neither "available" nor "unavailable"
OtherStatus == "<other>"
\* Python None / JSON null in last_seen_at ; a key last_seen_at that is not there
Null == 0 - 1
AbsentTime == 0 - 2

\* what json.load can return for state.json: a dict (with or without the two
\* keys), or a value that is no dict (list, number, string, null)
Dict(ls, seen) == [isdict |-> TRUE, last_status |-> ls, last_seen_at |-> seen]
NonDict == [isdict |-> FALSE, last_status |-> Absent, last_seen_at |-> AbsentTime]

\* state.json on disk
NoFile == [kind |-> "missing", content |-> NonDict]
Garbage == [kind |-> "garbage", content |-> NonDict]
JsonFile(v) == [kind |-> "json", content |-> v]

\* dict.get(key, default) on the two keys main() uses
Get_last_status(d, default) ==
    IF d.last_status = Absent THEN default ELSE d.last_status

(* ------------------------------ state store --------------------------- *)

\* read_state(): io is what open()/read does this time ("ok" or "error")
read_state(f, io) ==
    IF f.kind # "missing"
    THEN IF io = "ok" /\ f.kind = "json"
         THEN f.content
         ELSE Dict("unavailable", Null)
    ELSE Dict("unavailable", Null)

\* write_state(state): io is what the file system does this time.
\*   "ok"        the file holds the dump of state
\*   "open_fail" open(STATE_FILE, "w") raises: the file is as it was
\*   "dump_fail" open truncated the file, the dump or the close raises:
\*               the file holds no parsable JSON
\* the exception is caught and logged in every case: nothing is raised
WriteOutcomes == {"ok", "open_fail", "dump_fail"}

write_state(f, st, io) ==
    CASE io = "ok" -> JsonFile(st)
      [] io = "open_fail" -> f
      [] OTHER -> Garbage

\* (mutant) a read_state that creates the missing file with the default state
read_state_creates(f) ==
    IF f.kind = "missing" THEN JsonFile(Dict("unavailable", Null)) ELSE f

\* what read_state() does to state.json: it opens it for reading only
read_state_file(f) == f

\* (mutant) write_state without its try: the I/O error leaves write_state
write_state_uncaught(io) == io # "ok"

\* whether write_state raises: except Exception catches what open, the
\* dump and the close raise
write_state_raises(io) == FALSE

(* ------------------------------ the probe ----------------------------- *)

\* showtimes a response body can hold, and the one URL the page calls
ShowTimes == {"14:00", "20:30"}
Urls == {"/api/shows"}

\* the texts a body can be, by what the HH:MM pattern finds in them: the
\* sequence of matches, in order, duplicates kept
RECURSIVE SeqsUpTo(_, _)
SeqsUpTo(S, n) ==
    IF n = 0 THEN {<<>>}
    ELSE LET shorter == SeqsUpTo(S, n - 1)
         IN shorter \cup {Append(q, x) : q \in {t \in shorter : Len(t) = n - 1}, x \in S}

Bodies == SeqsUpTo(ShowTimes, MaxTimes)

\* a response the page receives: its request's resource type, its URL, and
\* its body (resp.text() raises on a body that is no text); film tells
\* whether the text names the target film (FILM_NAME or the id of FILM_URL)
ResourceTypes == {"xhr", "fetch", "document"}
Responses ==
    [rtype : ResourceTypes, url : Urls, readable : {TRUE}, times : Bodies,
     film : BOOLEAN]
    \cup [rtype : ResourceTypes, url : Urls, readable : {FALSE}, times : {<<>>},
          film : {FALSE}]

\* (mutant) the first match only, as re.search gives it
search_first(resp) == IF resp.times = <<>> THEN <<>> ELSE <<Head(resp.times)>>

\* re.findall(HH:MM, txt)
findall_times(resp) == resp.times

\* the filter of on_response
IsXhrOrFetch(rtype) == rtype \in {"xhr", "fetch"}

\* on_response(resp): what it appends to collected_xhr_urls
on_response_urls(urls, resp) ==
    IF ~IsXhrOrFetch(resp.rtype) THEN urls ELSE Append(urls, resp.url)

\* (mutant) on_response without its resource-type filter on the hits
on_response_hits_unfiltered(hits, resp) ==
    IF ~resp.readable THEN hits
    ELSE IF Len(resp.times) > 0
         THEN Append(hits, [url |-> resp.url, n |-> Len(resp.times)])
         ELSE hits

\* on_response(resp): what it appends to collected_hits; a body that is no
\* text raises in resp.text() and the exception is swallowed
on_response_hits(hits, resp) ==
    IF ~IsXhrOrFetch(resp.rtype) THEN hits
    ELSE IF ~resp.readable THEN hits
    ELSE IF Len(findall_times(resp)) > 0
         THEN Append(hits, [url |-> resp.url, n |-> Len(findall_times(resp))])
         ELSE hits

Prefix(q, n) == SubSeq(q, 1, IF Len(q) < n THEN Len(q) ELSE n)

RECURSIVE SumN(_)
SumN(hits) == IF hits = <<>> THEN 0 ELSE Head(hits).n + SumN(Tail(hits))

\* debug_info as check_availability() creates it
NoError == "None"
debug_info0 ==
    [available |-> FALSE, film_found |-> FALSE, nb_horaires |-> 0,
     error |-> NoError, xhr_count |-> 0, hits_count |-> 0,
     sample_xhr_urls |-> <<>>, sample_hit_urls |-> <<>>]

\* the analysis after the browser session (Analyse resultats)
analyse(urls, hits) ==
    LET total_times == SumN(hits)
        film_found == Len(hits) > 0
    IN [available |-> film_found /\ total_times > 0,
        film_found |-> film_found,
        nb_horaires |-> total_times,
        error |-> NoError,
        xhr_count |-> Len(urls),
        hits_count |-> Len(hits),
        sample_xhr_urls |-> Prefix(urls, SampleMax),
        sample_hit_urls |-> [i \in 1..Len(Prefix(hits, SampleMax)) |-> hits[i].url]]

\* accept_cookies(page) as check_availability() defines it: for _ in range(4),
\* and the five button names it tries in each pass
Passes == 4
Labels == <<"Tout accepter", "Accepter", "J'accepte", "OK", "Continuer">>

\* one attempt: a pass and the index of a label
Attempts == (1..Passes) \X (1..Len(Labels))

\* what the page does with the clicks: the attempts at which a button of that
\* name is there and takes the click (every other attempt raises after its
\* 1500 ms timeout)
Overlays ==
    {{}} \cup {{a} : a \in Attempts} \cup {{a, b} : a \in Attempts, b \in Attempts}

\* (mutant) the loop without its return: it goes on after a click
RECURSIVE accept_cookies_no_return(_, _, _)
accept_cookies_no_return(clickable, pass, label) ==
    IF pass > Passes THEN [clicks |-> 0, attempts |-> 0]
    ELSE IF label > Len(Labels) THEN accept_cookies_no_return(clickable, pass + 1, 1)
    ELSE LET r == accept_cookies_no_return(clickable, pass, label + 1)
         IN [clicks |-> r.clicks + (IF <<pass, label>> \in clickable THEN 1 ELSE 0),
             attempts |-> r.attempts + 1]

\* the two loops of accept_cookies from attempt (pass, label) on: the clicks
\* that succeeded and the attempts made when it returns; a click that raises
\* is swallowed by except Exception: pass, a click that succeeds returns
RECURSIVE accept_cookies(_, _, _)
accept_cookies(clickable, pass, label) ==
    IF pass > Passes THEN [clicks |-> 0, attempts |-> 0]
    ELSE IF label > Len(Labels) THEN accept_cookies(clickable, pass + 1, 1)
    ELSE IF <<pass, label>> \in clickable THEN [clicks |-> 1, attempts |-> 1]
    ELSE LET r == accept_cookies(clickable, pass, label + 1)
         IN [r EXCEPT !.attempts = @ + 1]

\* browser.close()
browser_close(b) == "closed"

\* (mutant) an exception that leaves the session without ending the browser
with_exit_leaks(b) == b

\* leaving the with sync_playwright() block on an exception: Playwright is
\* stopped, and the browser it launched with it
with_exit(b) == "closed"

\* (mutant) an except clause that returns without setting the error
probe_failed_silent(err) == debug_info0

\* the two except clauses: debug_info with only the error set
ProbeErrors == {"Timeout Playwright", "Erreur scraping/API"}
probe_failed(err) == [debug_info0 EXCEPT !.error = err]

(* ------------------------------ the notifier -------------------------- *)

\* an environment variable: not set, set to the empty string, or set
EnvValues == {"unset", "empty", "set"}
EnvNames == {"BREVO_SMTP_USER", "BREVO_SMTP_KEY", "BREVO_FROM_EMAIL", "ALERT_TO_EMAIL"}
Envs == [EnvNames -> EnvValues]

\* os.environ.get(name): None, "" or a non-empty string
\* os.environ.get(name, default): the default address when the name is not set
environ_get(e, name) == IF e[name] = "unset" THEN "None" ELSE e[name]
environ_get_default(e, name) == IF e[name] = "unset" THEN "set" ELSE e[name]

\* Python truth of a configuration value: None and "" are false
truthy(v) == v = "set"

\* smtp_user, smtp_pass, from_email, to_email as send_email_brevo reads them
config(e) ==
    [smtp_user |-> environ_get(e, "BREVO_SMTP_USER"),
     smtp_pass |-> environ_get(e, "BREVO_SMTP_KEY"),
     from_email |-> environ_get(e, "BREVO_FROM_EMAIL"),
     to_email |-> environ_get_default(e, "ALERT_TO_EMAIL")]

\* what the relay does with one session: the step that raises, if any
\* ("quit_fail": the QUIT on leaving the with block is refused)
SmtpOutcomes == {"connect_fail", "starttls_fail", "login_fail", "send_fail",
                 "quit_fail", "ok"}

\* the with smtplib.SMTP(...) block: whether a step raised, whether the
\* connection was opened, whether sendmail handed the message over
smtp_session(smtp) ==
    [exc |-> smtp # "ok",
     connected |-> smtp # "connect_fail",
     delivered |-> smtp \in {"quit_fail", "ok"}]

\* (mutant) any() where the code has all()
any_present(c) == \E k \in DOMAIN c : truthy(c[k])

\* all([smtp_user, smtp_pass, from_email, to_email])
all_present(c) == \A k \in DOMAIN c : truthy(c[k])

\* send_email_brevo(subject, body): its return value and what it did; an
\* exception of the with block is caught by except Exception: return False
send_email_brevo(e, smtp) ==
    IF ~all_present(config(e))
    THEN [ret |-> FALSE, connected |-> FALSE, delivered |-> FALSE, raised |-> FALSE]
    ELSE LET s == smtp_session(smtp)
         IN [ret |-> ~s.exc,
             connected |-> s.connected,
             delivered |-> s.delivered,
             raised |-> FALSE]

NoCall == [called |-> FALSE, ret |-> FALSE, connected |-> FALSE,
           delivered |-> FALSE, raised |-> FALSE]

(* ------------------------------ main() -------------------------------- *)

\* the keys main() reads with debug[...] while it builds the mail body
\* (debug.get(...) never raises)
BodyKeys == {"reservation_signal", "nb_horaires"}
mail_body_raises(d) == \E k \in BodyKeys : k \notin DOMAIN d

\* (mutant) a mail for every available verdict, whatever the prior status
is_transition_every_available(new, last) == new = "available"

\* new_status == "available" and last_status != "available"
is_transition(new, last) == new = "available" /\ last # "available"

new_status_of(avail) == IF avail THEN "available" ELSE "unavailable"

VARIABLES
    file,                \* state.json
    clock,               \* datetime.now(timezone.utc)
    runs,                \* invocations started so far
    env,                 \* os.environ
    pc,                  \* where the current invocation is
    state,               \* main(): state
    last_status,         \* main(): last_status
    browser,             \* the headless browser: "closed" or "open"
    nresp,               \* responses the page has received in this session
    collected_xhr_urls,  \* check_availability(): collected_xhr_urls
    collected_hits,      \* check_availability(): collected_hits
    cookies,             \* accept_cookies(page): "pending" or "returned"
    available,           \* main(): available
    debug,               \* main(): debug
    obs,                 \* what this invocation did (mails, write)
    outbox,              \* messages handed to the relay, all invocations
    hist,                \* one record per ended invocation
    smtpPlan,            \* SpecNotify: what the relay will do
    call,                \* SpecNotify: the result of the direct call
    direct,              \* SpecProbe: check_availability() is called directly
    page,                \* SpecProbe: what the page has sent in this session
    second               \* SpecOverlap: an invocation that overlaps this one

vars == <<file, clock, runs, env, pc, state, last_status, browser, nresp,
          collected_xhr_urls, collected_hits, cookies, available, debug, obs,
          outbox, hist, smtpPlan, call, direct, page, second>>

mainLocals == <<state, last_status, available, debug>>
probeLocals == <<browser, nresp, collected_xhr_urls, collected_hits, cookies>>
notifyVars == <<smtpPlan, call>>
otherVars == <<notifyVars, direct, second>>

\* what the page has sent, kept for a direct call only: whether a text named
\* the target film, and of the texts on_response can read (xhr or fetch, a
\* body that is text) the showtimes they hold and how many times in all
NoPage == [film |-> FALSE, distinct |-> {}, occ |-> 0,
           overlay |-> {}, clicks |-> 0, attempts |-> 0]

Range(q) == {q[i] : i \in DOMAIN q}

Seen(p, resp) ==
    LET read == IsXhrOrFetch(resp.rtype) /\ resp.readable
    IN [p EXCEPT !.film = p.film \/ resp.film,
                 !.distinct = IF read THEN p.distinct \cup Range(resp.times)
                              ELSE p.distinct,
                 !.occ = IF read THEN p.occ + Len(resp.times) ELSE p.occ]

\* accept_cookies(page) has run against an overlay that takes the clicks of
\* the attempts in clickable
Dismissed(p, clickable) ==
    LET r == accept_cookies(clickable, 1, 1)
    IN [p EXCEPT !.overlay = clickable, !.clicks = r.clicks, !.attempts = r.attempts]

\* the files an invocation can find: none, one that is no JSON, JSON that is
\* no object, and objects with or without the two keys
StatusValues == {"available", "unavailable", OtherStatus, Absent}
SeenValues == {AbsentTime, Null, 0}
InitFiles ==
    {NoFile, Garbage, JsonFile(NonDict)}
    \cup {JsonFile(Dict(ls, seen)) : ls \in StatusValues, seen \in SeenValues}

\* the deployments of main(): every variable set, or the relay key not set
AllSet == [n \in EnvNames |-> "set"]
MainEnvs == {AllSet, [AllSet EXCEPT !["BREVO_SMTP_KEY"] = "unset"]}

\* what an invocation has done so far: how its probe returned ("none", "ok",
\* "failed"), the calls of send_email_brevo, the mails handed to the relay,
\* what its write did ("none" before write_state is called), state.json as
\* the invocation found it, and the steps it has taken
NoObs == [probe |-> "none", mails |-> 0, calls |-> 0, write |-> "none",
          before |-> NoFile, steps |-> <<>>]

Step(o, name) == [o EXCEPT !.steps = Append(@, name)]

\* the locals of a second invocation of main() that is not running
NoSecond == [pc |-> "none", last_status |-> Absent, available |-> FALSE,
             debug |-> debug_info0, calls |-> 0, write |-> "none"]

Init ==
    /\ file \in InitFiles
    /\ env \in MainEnvs
    /\ clock = 0
    /\ runs = 0
    /\ pc = "idle"
    /\ state = NonDict
    /\ last_status = Absent
    /\ browser = "closed"
    /\ nresp = 0
    /\ collected_xhr_urls = <<>>
    /\ collected_hits = <<>>
    /\ cookies = "pending"
    /\ available = FALSE
    /\ debug = debug_info0
    /\ obs = NoObs
    /\ outbox = 0
    /\ hist = <<>>
    /\ smtpPlan = "ok"
    /\ call = NoCall
    /\ direct = FALSE
    /\ page = NoPage
    /\ second = NoSecond

\* the record of an invocation that ends now (kept: state.json is, at the
\* end, as the invocation found it)
Ended(exit, o, f) ==
    [prior |-> last_status, probe |-> o.probe, verdict |-> available,
     mails |-> o.mails, calls |-> o.calls, write |-> o.write, exit |-> exit,
     at |-> clock, kept |-> f = o.before]

\* the scheduler starts python check_pathe.py: log("===== START =====")
Start ==
    /\ pc \in {"idle", "done", "crashed"}
    /\ runs < MaxRuns
    /\ runs' = runs + 1
    /\ clock' = clock + 1
    /\ pc' = "read"
    /\ state' = NonDict
    /\ last_status' = Absent
    /\ browser' = "closed"
    /\ nresp' = 0
    /\ collected_xhr_urls' = <<>>
    /\ collected_hits' = <<>>
    /\ cookies' = "pending"
    /\ available' = FALSE
    /\ debug' = debug_info0
    /\ obs' = [NoObs EXCEPT !.before = file]
    /\ page' = NoPage
    /\ UNCHANGED <<file, env, outbox, hist, otherVars>>

\* state = read_state(); last_status = state.get("last_status", "unavailable")
\* a value that is no dict has no get: AttributeError leaves main()
ReadState ==
    /\ pc = "read"
    /\ \E io \in {"ok", "error"} :
         LET st == read_state(file, io)
         IN /\ state' = st
            /\ obs' = Step(obs, "read")
            /\ IF st.isdict
               THEN /\ last_status' = Get_last_status(st, "unavailable")
                    /\ pc' = "probe"
                    /\ hist' = hist
               ELSE /\ last_status' = last_status
                    /\ pc' = "crashed"
                    /\ hist' = Append(hist, Ended("crash", obs', read_state_file(file)))
    /\ file' = read_state_file(file)
    /\ UNCHANGED <<clock, runs, env, probeLocals, available, debug, outbox,
                   otherVars, page>>

\* check_availability() up to page.on("response", on_response): the browser
\* is launched, the two lists are empty
Launch ==
    /\ pc = "probe"
    /\ browser' = "open"
    /\ nresp' = 0
    /\ collected_xhr_urls' = <<>>
    /\ collected_hits' = <<>>
    /\ cookies' = "pending"
    /\ pc' = "session"
    /\ page' = NoPage
    /\ UNCHANGED <<file, clock, runs, env, mainLocals, obs, outbox, hist, otherVars>>

\* on_response(resp), called for a response the page receives
OnResponse ==
    /\ pc = "session"
    /\ nresp < MaxResp
    /\ \E resp \in Responses :
         /\ collected_xhr_urls' = on_response_urls(collected_xhr_urls, resp)
         /\ collected_hits' = on_response_hits(collected_hits, resp)
         /\ page' = IF direct THEN Seen(page, resp) ELSE page
    /\ nresp' = nresp + 1
    /\ UNCHANGED <<file, clock, runs, env, pc, mainLocals, browser, cookies, obs,
                   outbox, hist, otherVars>>

\* accept_cookies(page), after page.goto and the first wait: responses go on
\* arriving before and after it
AcceptCookies ==
    /\ pc = "session"
    /\ cookies = "pending"
    /\ cookies' = "returned"
    /\ page' \in {IF direct THEN Dismissed(page, clickable) ELSE page :
                      clickable \in Overlays}
    /\ UNCHANGED <<file, clock, runs, env, pc, mainLocals, browser, nresp,
                   collected_xhr_urls, collected_hits, obs, outbox, hist, otherVars>>

\* browser.close(), the analysis and return debug_info["available"], debug_info;
\* the locals of check_availability() end with the call
CloseAndAnalyse ==
    /\ pc = "session"
    /\ cookies = "returned"
    /\ browser' = browser_close(browser)
    /\ debug' = analyse(collected_xhr_urls, collected_hits)
    /\ available' = debug'.available
    /\ nresp' = 0
    /\ collected_xhr_urls' = <<>>
    /\ collected_hits' = <<>>
    /\ cookies' = "pending"
    /\ obs' = Step([obs EXCEPT !.probe = "ok"], "probe")
    /\ pc' = "decide"
    /\ UNCHANGED <<file, clock, runs, env, state, last_status, outbox, hist,
                   otherVars, page>>

\* an exception in the browser session (launch, goto, wait): one of the two
\* except clauses sets the error and returns False, debug_info; leaving the
\* with block ends the browser
ProbeFail ==
    /\ pc \in {"probe", "session"}
    /\ \E err \in ProbeErrors : debug' = probe_failed(err)
    /\ available' = FALSE
    /\ browser' = with_exit(browser)
    /\ nresp' = 0
    /\ collected_xhr_urls' = <<>>
    /\ collected_hits' = <<>>
    /\ cookies' = "pending"
    /\ obs' = Step([obs EXCEPT !.probe = "failed"], "probe")
    /\ pc' = "decide"
    /\ UNCHANGED <<file, clock, runs, env, state, last_status, outbox, hist,
                   otherVars, page>>

\* new_status, the comparison, the mail body and send_email_brevo(subject, body);
\* a key the body reads with debug[...] and debug_info does not hold raises
\* KeyError out of main(), before send_email_brevo is called
Decide ==
    /\ pc = "decide"
    /\ IF is_transition(new_status_of(available), last_status)
       THEN IF mail_body_raises(debug)
            THEN /\ pc' = "crashed"
                 /\ obs' = Step(obs, "compare")
                 /\ hist' = Append(hist, Ended("crash", obs', file))
                 /\ UNCHANGED outbox
            ELSE \E smtp \in SmtpOutcomes :
                   LET r == send_email_brevo(env, smtp)
                       n == IF r.delivered THEN 1 ELSE 0
                   IN /\ obs' = Step(Step([obs EXCEPT !.mails = @ + n, !.calls = @ + 1],
                                         "compare"), "notify")
                      /\ outbox' = outbox + n
                      /\ pc' = "write"
                      /\ hist' = hist
       ELSE /\ pc' = "write"
            /\ obs' = Step(obs, "compare")
            /\ UNCHANGED <<outbox, hist>>
    /\ UNCHANGED <<file, clock, runs, env, mainLocals, probeLocals, otherVars, page>>

\* state["last_status"] = new_status; state["last_seen_at"] = now; write_state(state)
WriteState ==
    /\ pc = "write"
    /\ state' = Dict(new_status_of(available), clock)
    /\ \E io \in WriteOutcomes :
         /\ file' = write_state(file, state', io)
         /\ obs' = Step([obs EXCEPT !.write = io], "persist")
         /\ IF write_state_raises(io)
            THEN /\ pc' = "crashed"
                 /\ hist' = Append(hist, Ended("crash", obs', file'))
            ELSE /\ pc' = "end"
                 /\ hist' = hist
    /\ UNCHANGED <<clock, runs, env, last_status, available, debug, probeLocals,
                   outbox, otherVars, page>>

\* log("===== END ====="): main() returns, the process exits zero
End ==
    /\ pc = "end"
    /\ pc' = "done"
    /\ hist' = Append(hist, Ended("ok", obs, file))
    /\ UNCHANGED <<file, clock, runs, env, mainLocals, probeLocals, obs, outbox,
                   otherVars, page>>

Next ==
    \/ Start
    \/ ReadState
    \/ Launch
    \/ OnResponse
    \/ AcceptCookies
    \/ CloseAndAnalyse
    \/ ProbeFail
    \/ Decide
    \/ WriteState
    \/ End

Spec == Init /\ [][Next]_vars

(* ----------------- direct calls of send_email_brevo ------------------- *)

InitNotify ==
    /\ file = NoFile
    /\ env \in Envs
    /\ clock = 0
    /\ runs = 0
    /\ pc = "idle"
    /\ state = NonDict
    /\ last_status = Absent
    /\ browser = "closed"
    /\ nresp = 0
    /\ collected_xhr_urls = <<>>
    /\ collected_hits = <<>>
    /\ cookies = "pending"
    /\ available = FALSE
    /\ debug = debug_info0
    /\ obs = NoObs
    /\ outbox = 0
    /\ hist = <<>>
    /\ smtpPlan \in SmtpOutcomes
    /\ call = NoCall
    /\ direct = FALSE
    /\ page = NoPage
    /\ second = NoSecond

CallSendEmail ==
    /\ ~call.called
    /\ LET r == send_email_brevo(env, smtpPlan)
       IN /\ call' = [called |-> TRUE, ret |-> r.ret, connected |-> r.connected,
                      delivered |-> r.delivered, raised |-> r.raised]
          /\ outbox' = outbox + (IF r.delivered THEN 1 ELSE 0)
    /\ UNCHANGED <<file, clock, runs, env, pc, mainLocals, probeLocals, obs, hist,
                   smtpPlan, direct, page, second>>

NextNotify == CallSendEmail

SpecNotify == InitNotify /\ [][NextNotify]_vars

(* ----------------- direct calls of check_availability ----------------- *)

\* check_availability() is about to be called; what the page sends during
\* the session is recorded
InitProbe ==
    /\ file = NoFile
    /\ env = AllSet
    /\ clock = 1
    /\ runs = 1
    /\ pc = "probe"
    /\ state = Dict("unavailable", Null)
    /\ last_status = "unavailable"
    /\ browser = "closed"
    /\ nresp = 0
    /\ collected_xhr_urls = <<>>
    /\ collected_hits = <<>>
    /\ cookies = "pending"
    /\ available = FALSE
    /\ debug = debug_info0
    /\ obs = NoObs
    /\ outbox = 0
    /\ hist = <<>>
    /\ smtpPlan = "ok"
    /\ call = NoCall
    /\ direct = TRUE
    /\ page = NoPage
    /\ second = NoSecond

NextProbe ==
    \/ Launch
    \/ OnResponse
    \/ AcceptCookies
    \/ CloseAndAnalyse
    \/ ProbeFail

SpecProbe == InitProbe /\ [][NextProbe]_vars

(* ----------------- two invocations on one state.json ------------------- *)

\* the scheduler has started two processes of check_pathe.py on the same
\* working directory: this one and a second one, each about to read state.json
OverlapFiles ==
    {NoFile} \cup {JsonFile(Dict(ls, 0)) : ls \in {"available", "unavailable"}}

InitOverlap ==
    /\ file \in OverlapFiles
    /\ env = AllSet
    /\ clock = 1
    /\ runs = 1
    /\ pc = "read"
    /\ state = NonDict
    /\ last_status = Absent
    /\ browser = "closed"
    /\ nresp = 0
    /\ collected_xhr_urls = <<>>
    /\ collected_hits = <<>>
    /\ cookies = "pending"
    /\ available = FALSE
    /\ debug = debug_info0
    /\ obs = [NoObs EXCEPT !.before = file]
    /\ outbox = 0
    /\ hist = <<>>
    /\ smtpPlan = "ok"
    /\ call = NoCall
    /\ direct = FALSE
    /\ page = NoPage
    /\ second = [NoSecond EXCEPT !.pc = "read"]

firstVars == <<file, clock, runs, env, pc, mainLocals, probeLocals, obs, hist,
               notifyVars, direct, page>>

\* the second invocation: state = read_state(); last_status = state.get(...)
SecondRead ==
    /\ second.pc = "read"
    /\ \E io \in {"ok", "error"} :
         LET st == read_state(file, io)
         IN second' = [second EXCEPT !.pc = "probe",
                                     !.last_status = Get_last_status(st, "unavailable")]
    /\ UNCHANGED <<firstVars, outbox>>

\* the second invocation: available, debug = check_availability(), with the
\* one response its page receives, or with an exception in its session
SecondProbe ==
    /\ second.pc = "probe"
    /\ \/ \E resp \in Responses :
            LET d == analyse(on_response_urls(<<>>, resp), on_response_hits(<<>>, resp))
            IN second' = [second EXCEPT !.pc = "decide", !.available = d.available,
                                        !.debug = d]
       \/ \E err \in ProbeErrors :
            second' = [second EXCEPT !.pc = "decide", !.available = FALSE,
                                     !.debug = probe_failed(err)]
    /\ UNCHANGED <<firstVars, outbox>>

\* the second invocation: the comparison, the mail body, send_email_brevo
SecondDecide ==
    /\ second.pc = "decide"
    /\ IF is_transition(new_status_of(second.available), second.last_status)
       THEN IF mail_body_raises(second.debug)
            THEN /\ second' = [second EXCEPT !.pc = "crashed"]
                 /\ UNCHANGED outbox
            ELSE \E smtp \in SmtpOutcomes :
                   LET r == send_email_brevo(env, smtp)
                   IN /\ second' = [second EXCEPT !.pc = "write", !.calls = @ + 1]
                      /\ outbox' = outbox + (IF r.delivered THEN 1 ELSE 0)
       ELSE /\ second' = [second EXCEPT !.pc = "write"]
            /\ UNCHANGED outbox
    /\ UNCHANGED firstVars

\* the second invocation: write_state(state), then END
SecondWrite ==
    /\ second.pc = "write"
    /\ \E io \in WriteOutcomes :
         /\ file' = write_state(file, Dict(new_status_of(second.available), clock), io)
         /\ second' = [second EXCEPT !.pc = "done", !.write = io]
    /\ UNCHANGED <<clock, runs, env, pc, mainLocals, probeLocals, obs, hist,
                   notifyVars, direct, page, outbox>>

NextOverlap ==
    \/ ReadState
    \/ Launch
    \/ OnResponse
    \/ AcceptCookies
    \/ CloseAndAnalyse
    \/ ProbeFail
    \/ Decide
    \/ WriteState
    \/ End
    \/ SecondRead
    \/ SecondProbe
    \/ SecondDecide
    \/ SecondWrite

SpecOverlap == InitOverlap /\ [][NextOverlap]_vars

(* ------------------------------ properties ---------------------------- *)

\* an invocation has just ended: main() returned or an exception left it
EndedNow == pc \in {"done", "crashed"}
Last == hist[Len(hist)]

\* the probe of invocation h returned, and the comparison of main() saw the
\* change unavailable -> available
Probed(h) == h.probe # "none"
SawTransition(h) == Probed(h) /\ h.verdict /\ h.prior # "available"

\* C1: an invocation whose probe has returned calls the notifier if and only
\* if the status it loaded is unavailable and the verdict is available (the
\* claim asks for more, that the send inside the notifier is reached)
C1_NotifyIffTransition ==
    \A i \in DOMAIN hist :
        Probed(hist[i]) =>
            ((hist[i].calls = 1) <=> (hist[i].prior = "unavailable" /\ hist[i].verdict))

\* C2: no invocation of main() that has loaded a prior state and probed ends
\* with an exception, whatever the prior state, the probe outcome and the
\* notification outcome
C2_RunsToCompletion == ~(pc = "crashed" /\ Probed(Last))

\* C3: when an invocation whose probe has returned ends, state.json holds the
\* status of that probe's verdict and the timestamp of that invocation (a
\* write that the file system refused is left aside)
C3_StateFollowsProbe ==
    (EndedNow /\ Probed(Last) /\ Last.write \notin {"open_fail", "dump_fail"})
        => file = JsonFile(Dict(new_status_of(Last.verdict), Last.at))

\* the invocation now at or past write_state loaded prior status available
\* and its probe returned True
AvailableAgain == last_status = "available" /\ obs.probe = "ok" /\ available

\* C4 (as claimed): an invocation with prior state {available, t0} and verdict
\* True ends normally, has sent no mail, and leaves state.json = {available, t1}
C4_AvailableAgainPersisted ==
    (EndedNow /\ Last.prior = "available" /\ Probed(Last) /\ Last.verdict)
        => /\ Last.exit = "ok"
           /\ Last.mails = 0
           /\ file = JsonFile(Dict("available", Last.at))

\* C4 (amended): an invocation with prior state {available, t0} and verdict
\* True never ends with an exception, never calls the notifier, hands
\* {available, t1} to write_state, and state.json is {available, t1} whenever
\* that write succeeds; of two consecutive invocations whose verdicts are both
\* available the second sends no mail
C4_AvailableAgainQuiet ==
    /\ (pc \in {"write", "end", "done", "crashed"} /\ AvailableAgain)
           => pc # "crashed" /\ obs.calls = 0 /\ obs.mails = 0
    /\ (pc \in {"end", "done"} /\ AvailableAgain)
           => /\ state = Dict("available", clock)
              /\ obs.write \in WriteOutcomes
              /\ (obs.write = "ok" => file = JsonFile(state))
    /\ \A i \in DOMAIN hist :
           (i > 1 /\ Probed(hist[i - 1]) /\ hist[i - 1].verdict
                  /\ Probed(hist[i]) /\ hist[i].verdict)
               => hist[i].mails = 0

\* two invocations in a row found available and read available: the second
\* has ended, nothing was mailed, state.json is {available, t1}
C4_Witness ==
    /\ pc = "done"
    /\ Len(hist) = 2
    /\ \A i \in 1..2 : /\ hist[i].prior = "available"
                       /\ hist[i].verdict
                       /\ hist[i].write = "ok"
                       /\ hist[i].exit = "ok"
    /\ outbox = 0
    /\ file = JsonFile(Dict("available", clock))

\* invocations i..j, more than one, all probed with the same verdict
SameVerdictBlock(i, j) ==
    /\ i < j
    /\ \A k \in i..j : Probed(hist[k]) /\ hist[k].verdict = hist[i].verdict

\* invocation k is the first of the block from i that sees the change
FirstTransition(i, k) ==
    SawTransition(hist[k]) /\ \A m \in i..(k - 1) : ~SawTransition(hist[m])

\* C5: over consecutive invocations with the same verdict at most one
\* notification is sent, by the first invocation that sees the change
\* unavailable -> available, and none by the others
C5_OneMailPerStreak ==
    \A i, j \in DOMAIN hist :
        SameVerdictBlock(i, j) =>
            /\ Cardinality({k \in i..j : hist[k].calls > 0}) <= 1
            /\ \A k \in i..j :
                   hist[k].calls = (IF FirstTransition(i, k) THEN 1 ELSE 0)

\* C6: an invocation that reads available and finds unavailable ends normally
\* without mail and writes; when that write succeeded, the next invocation,
\* reading unavailable and finding available, notifies once
C6_DropRearms ==
    /\ \A i \in DOMAIN hist :
           (Probed(hist[i]) /\ hist[i].prior = "available" /\ ~hist[i].verdict)
               => hist[i].exit = "ok" /\ hist[i].calls = 0 /\ hist[i].write # "none"
    /\ \A i \in DOMAIN hist :
           (/\ i > 1
            /\ Probed(hist[i - 1]) /\ hist[i - 1].prior = "available"
            /\ ~hist[i - 1].verdict /\ hist[i - 1].write = "ok"
            /\ Probed(hist[i]) /\ hist[i].prior = "unavailable" /\ hist[i].verdict)
               => hist[i].calls = 1

\* C7: an invocation whose probe failed internally has verdict False and an
\* error in its diagnostics, never ends with an exception and never calls the
\* notifier; it hands {unavailable, t1} to write_state whatever the prior
\* status, and state.json is {unavailable, t1} when the write succeeds
C7_ProbeFailureHandled ==
    /\ obs.probe = "failed"
           => /\ ~available
              /\ ~debug.available
              /\ debug.error \in ProbeErrors
              /\ pc \in {"decide", "write", "end", "done"}
              /\ obs.calls = 0
              /\ obs.mails = 0
    /\ (obs.probe = "failed" /\ pc \in {"end", "done"})
           => /\ state = Dict("unavailable", clock)
              /\ obs.write \in WriteOutcomes
              /\ (obs.write = "ok" => file = JsonFile(Dict("unavailable", clock)))

\* the probe timed out in an invocation that had read available: main() has
\* returned and state.json is {unavailable, t1}
C7_Witness ==
    /\ pc = "done"
    /\ obs.probe = "failed"
    /\ debug.error = "Timeout Playwright"
    /\ last_status = "available"
    /\ Last.exit = "ok"
    /\ file = JsonFile(Dict("unavailable", clock))

\* C8: with a notifier that cannot send (a configuration value is missing),
\* an invocation that sees the change unavailable -> available still ends
\* normally and still writes the new state
C8_PersistDespiteNotifier ==
    ~all_present(config(env))
        => \A i \in DOMAIN hist :
               SawTransition(hist[i]) => hist[i].exit = "ok" /\ hist[i].write # "none"

\* one of the four values send_email_brevo reads is None or ""
MissingValue(e) ==
    \/ \E n \in {"BREVO_SMTP_USER", "BREVO_SMTP_KEY", "BREVO_FROM_EMAIL"} : e[n] # "set"
    \/ e["ALERT_TO_EMAIL"] = "empty"

\* C9: send_email_brevo never raises; with a value missing or empty it
\* returns False and opens no connection; when the connection, STARTTLS, the
\* login or the send fails it returns False; it returns True only when the
\* message has been handed to the relay
C9_NotifierNeverRaises ==
    call.called
        => /\ ~call.raised
           /\ MissingValue(env) => (~call.ret /\ ~call.connected /\ ~call.delivered)
           /\ smtpPlan \in {"connect_fail", "starttls_fail", "login_fail", "send_fail"}
                  => ~call.ret
           /\ call.ret => (call.connected /\ call.delivered /\ outbox = 1)

\* the relay key is empty, the other values are set and the relay would
\* accept the mail: the call returned False and opened no connection
C9_Witness ==
    /\ call.called
    /\ env["BREVO_SMTP_KEY"] = "empty"
    /\ \A n \in EnvNames \ {"BREVO_SMTP_KEY"} : env[n] = "set"
    /\ smtpPlan = "ok"
    /\ ~call.ret
    /\ ~call.connected

\* state.json holds a well-formed MonitorState record
WellFormedRecord(f) ==
    /\ f.kind = "json"
    /\ f.content.isdict
    /\ f.content.last_status \in {"available", "unavailable"}
    /\ f.content.last_seen_at # AbsentTime

\* C10: after read_state() of a state.json that is missing, unreadable or no
\* well-formed record, main() goes on with the default state {unavailable, null}
C10_DefaultOnCorrupt ==
    (pc \in {"probe", "session", "decide", "crashed"} /\ ~WellFormedRecord(file))
        => state = Dict("unavailable", Null) /\ last_status = "unavailable"

\* C11: check_availability() returns True only when a text the page sent
\* names the target film; with showtimes of other films only it returns False
C11_AvailableOnlyWithFilm ==
    (direct /\ pc = "decide" /\ available) => page.film

\* C12: the browser of check_availability() is ended whenever the call is
\* not inside its session: before the launch and after every return, the
\* normal one and the two except clauses
C12_BrowserTornDown ==
    /\ pc # "session" => browser = "closed"
    /\ obs.probe # "none" => browser = "closed"

\* the session received showtimes, then an exception ended it: the call has
\* returned its error and the browser is ended
C12_Witness ==
    /\ pc = "decide"
    /\ obs.probe = "failed"
    /\ page.occ > 0
    /\ debug.error \in ProbeErrors
    /\ browser = "closed"

\* C13: an invocation whose write of state.json failed does not end with an
\* exception: write_state returns and main() goes on to its end
C13_FailedWriteNoCrash ==
    /\ obs.write \in {"open_fail", "dump_fail"} => pc \in {"end", "done"}
    /\ (pc = "done" /\ obs.write \in {"open_fail", "dump_fail"}) => Last.exit = "ok"

\* the dump failed after open truncated the file: main() has returned
C13_Witness ==
    /\ pc = "done"
    /\ obs.write = "dump_fail"
    /\ file = Garbage
    /\ Last.exit = "ok"
    /\ Last.write = "dump_fail"

\* the orders of steps main() can take when it runs to its end
FixedOrders ==
    {<<"read", "probe", "compare", "persist">>,
     <<"read", "probe", "compare", "notify", "persist">>}

\* C14: an invocation that has probed ends having taken its steps in the
\* order read, probe, compare, notify (when the status changed to available),
\* persist, each once, and having sent the notification exactly when it saw
\* the change; state.json is as the invocation found it until the persist step
C14_FixedOrder ==
    /\ (EndedNow /\ Probed(Last))
           => /\ obs.steps \in FixedOrders
              /\ ("notify" \in Range(obs.steps)) <=> SawTransition(Last)
    /\ (pc \in {"read", "probe", "session", "decide", "write"})
           => file = obs.before

\* a direct call of check_availability() has returned from its analysis
Analysed == direct /\ pc = "decide" /\ obs.probe = "ok"

\* C15 (as claimed): nb_horaires is the number of distinct showtimes in the
\* texts on_response read: a showtime that appears in two responses, or twice
\* in one, counts once
C15_DistinctShowtimes ==
    Analysed => debug.nb_horaires = Cardinality(page.distinct)

\* C15 (amended): nb_horaires is the number of HH:MM matches in the texts
\* on_response read, each occurrence counted: it is at least the number of
\* distinct showtimes and zero exactly when there is none; a call that
\* failed reports zero
C15_CountsOccurrences ==
    /\ Analysed
           => /\ debug.nb_horaires = page.occ
              /\ debug.nb_horaires >= Cardinality(page.distinct)
              /\ (debug.nb_horaires = 0) <=> (page.distinct = {})
    /\ (direct /\ obs.probe = "failed") => debug.nb_horaires = 0

\* one showtime, twice in one response and once more in another: three
C15_Witness ==
    /\ Analysed
    /\ page.distinct = {"14:00"}
    /\ page.occ = 3
    /\ debug.nb_horaires = 3
    /\ debug.hits_count = 2

\* a direct call of check_availability() is past accept_cookies(page)
CookiesReturned == direct /\ cookies = "returned"

\* the position of attempt a in the order the loops try them
Position(a) == (a[1] - 1) * Len(Labels) + a[2]

\* C16: accept_cookies(page) returns after at most 4 passes of 5 attempts;
\* it stops at the first click that succeeds, so at most one click succeeds;
\* when no attempt is ever clickable it has made all 20 attempts, returns
\* normally, and the call goes on to its analysis with no error
C16_CookiesTerminate ==
    /\ CookiesReturned
           => /\ page.attempts \in 1..(Passes * Len(Labels))
              /\ page.clicks \in {0, 1}
              /\ (page.clicks = 1) <=> (page.overlay # {})
              /\ page.clicks = 1
                     => /\ \E a \in page.overlay : page.attempts = Position(a)
                        /\ \A a \in page.overlay : page.attempts <= Position(a)
              /\ page.clicks = 0
                     => page.attempts = Passes * Len(Labels) /\ debug.error = NoError
    /\ (Analysed /\ page.attempts > 0 /\ page.clicks = 0)
           => debug.error = NoError /\ debug.xhr_count >= 0
    /\ (direct /\ obs.probe = "ok") => page.attempts > 0

\* no overlay: all 20 attempts failed, the session went on, collected a
\* showtime and the call returned True with no error
C16_Witness ==
    /\ Analysed
    /\ page.overlay = {}
    /\ page.attempts = 20
    /\ page.clicks = 0
    /\ available
    /\ debug.error = NoError


\* both overlapping invocations are past their decision, both had loaded
\* unavailable before either wrote, and both probes returned True
BothSawChange ==
    /\ pc \in {"write", "end", "done", "crashed"}
    /\ second.pc \in {"write", "done", "crashed"}
    /\ last_status = "unavailable" /\ obs.probe = "ok" /\ available
    /\ second.last_status = "unavailable" /\ second.available

\* C17: when two overlapping invocations have both loaded unavailable before
\* either persisted and both find available, both call the notifier for the
\* same change
C17_BothNotify ==
    BothSawChange => obs.calls = 1 /\ second.calls = 1

\* a direct call of check_availability() has returned
Returned == direct /\ pc = "decide" /\ obs.probe # "none"

\* C18: the result of check_availability() is consistent: the boolean is
\* diagnostics.available; True implies error None, film_found, hits_count > 0
\* and nb_horaires > 0; an error implies False, also when responses with
\* times were collected before the failure; 0 <= hits_count <= xhr_count and
\* nb_horaires >= hits_count
C18_ResultConsistent ==
    Returned
        => /\ available = debug.available
           /\ available
                  => /\ debug.error = NoError
                     /\ debug.film_found
                     /\ debug.hits_count > 0
                     /\ debug.nb_horaires > 0
           /\ debug.error # NoError => ~available
           /\ obs.probe = "failed" => debug.error # NoError
           /\ 0 <= debug.hits_count
           /\ debug.hits_count <= debug.xhr_count
           /\ debug.nb_horaires >= debug.hits_count

\* two responses with times were collected, then the session failed: the
\* call returned False with its error
C18_Witness ==
    /\ Returned
    /\ obs.probe = "failed"
    /\ page.occ >= 2
    /\ debug.error = "Erreur scraping/API"
    /\ ~available
    /\ ~debug.available

\* the states read_state() can return for state.json as it is now, and the
\* prior statuses main() can load from it
Loadable(f) == {read_state(f, io) : io \in {"ok", "error"}}
LoadableStatus(f) ==
    {Get_last_status(st, "unavailable") : st \in {l \in Loadable(f) : l.isdict}}

\* C19: state.json changes only in write_state: as long as an invocation has
\* not called it the file is as the invocation found it; an invocation that
\* stopped before write_state has left the file as it was, and the state and
\* prior status it had loaded are those a read of the file returns now, to
\* the next invocation
C19_OnlyWriteStateModifies ==
    /\ (pc # "idle" /\ obs.write = "none") => file = obs.before
    /\ pc = "crashed"
           => /\ obs.write = "none"
              /\ file = obs.before
              /\ state \in Loadable(file)
              /\ Probed(Last) => last_status \in LoadableStatus(file)
    /\ \A i \in DOMAIN hist :
           /\ hist[i].write = "none" => hist[i].kept
           /\ hist[i].exit = "crash" => hist[i].write = "none"
           /\ hist[i].write = "ok" => hist[i].exit = "ok"

\* two invocations in a row stopped before write_state, after their probes:
\* state.json is as it was at first and the second loaded the same status
C19_Witness ==
    /\ pc = "crashed"
    /\ Len(hist) = 2
    /\ \A i \in 1..2 : /\ hist[i].exit = "crash"
                       /\ Probed(hist[i])
                       /\ hist[i].write = "none"
                       /\ hist[i].kept
    /\ hist[1].prior = OtherStatus
    /\ hist[2].prior = hist[1].prior
    /\ file = JsonFile(Dict(OtherStatus, 0))

====
